---------------------------- MODULE Spec2Model ----------------------------
(***************************************************************************)
(* The release scraper of fcos-fakeup: one actix actor (Scraper) that owns *)
(* the stream -> latest release cache, refreshes it on RefreshTick         *)
(* messages and answers GetLatest messages from it.                        *)
(* GET /v1/graph (serve_graph) turns a request into a GetLatest message    *)
(* and the answer into the update graph.                                   *)
(***************************************************************************)
EXTENDS Integers, Sequences, FiniteSets, TLC

(* ------------------------------ bounds -------------------------------- *)
\* RefreshTick messages handled in a run (caps UPSTREAM_SCRAPES).
MaxTicks == 2
\* GetLatest messages waiting in the actor's mailbox.
MaxMailbox == 1

(* ------------------------- fixed configuration ------------------------ *)
\* Seconds between the end of a cycle and the next RefreshTick.
refresh_pause == 30
\* The configured stream set, in the order a BTreeSet iterates it (two of the
\* three names main passes in).
streams == <<"testing", "testing-devel">>
StreamSet == {streams[i] : i \in 1..Len(streams)}
\* Stream names a query can carry: the configured ones and a foreign one.
QueryStreams == StreamSet \cup {"missing"}
\* Architectures a query can carry.
Basearchs == {"x86_64", "ppc64le"}

\* A fetch under way is followed on the clock up to this time only.
MaxTime == refresh_pause * 2

(* ------------------------------ data ---------------------------------- *)
Commit(a, c) == [architecture |-> a, checksum |-> c]

\* Releases the upstream index can serve.
Releases ==
  { [version |-> "30.1", commits |-> <<Commit("x86_64", "old"),
                                        Commit("x86_64", "new"),
                                        Commit("ppc64le", "x")>>],
    [version |-> "30.2", commits |-> <<Commit("x86_64", "abc"),
                                        Commit("x86_64", "")>>] }

\* Bodies {releases: [...]} the upstream index can answer with.
ReleasesJSON == {<<>>} \cup {<<r>> : r \in Releases}
                       \cup {<<q, r>> : q \in Releases, r \in Releases}

\* HashMap::new()
HashMapNew == [s \in {} |-> <<>>]

VARIABLES
  started,           \* Actor::started has run
  latest,            \* Scraper.latest: stream -> Release
  wait,              \* futures the context waits on (ctx.wait), newest last
  notified,          \* RefreshTick items queued by ctx.notify
  later,             \* deadlines of RefreshTick items queued by ctx.notify_later
  mailbox,           \* GetLatest messages sent to the actor, oldest first
  reply,             \* the response to the GetLatest message handled last
  UPSTREAM_SCRAPES,  \* counter fakeup_scraper_upstream_scrapes_total
  LAST_REFRESH,      \* gauge fakeup_scraper_last_refresh_timestamp
  now,               \* the UTC clock, in seconds
  handled,           \* history: RefreshTick messages handled so far
  done,              \* history: the cycle that resolved since the last tick
  snapshot,          \* history: the map the last committing cycle built
  callers,           \* per message in the mailbox: what its sender holds
  response,          \* the HTTP response serve_graph resolved to last
  first              \* history: the first reply since the cache was assigned

vars == <<started, latest, wait, notified, later, mailbox, reply,
          UPSTREAM_SCRAPES, LAST_REFRESH, now, handled, done, snapshot,
          callers, response, first>>

(* --------------------------- Release Fetcher -------------------------- *)
\* Vec::pop: the last element, as an Option (<<>> is None, <<r>> is Some(r)).
pop(releases) ==
  IF Len(releases) = 0 THEN <<>> ELSE <<releases[Len(releases)]>>

\* out_stream as a bug would have it: one fixed name, whatever the stream.
out_stream_fixed(stream) == "stable"

\* The stream name a fetch hands back with its release.
out_stream(stream) == stream

\* A fetch_releases future: not resolved, failed, or resolved to
\* (out_stream, Option<Release>).
FetchPending(stream) ==
  [st |-> "pending", stream |-> out_stream(stream), item |-> <<>>]
FetchErr(stream) ==
  [st |-> "err", stream |-> out_stream(stream), item |-> <<>>]
FetchOk(stream, json) ==
  [st |-> "ok", stream |-> out_stream(stream), item |-> pop(json)]

(* --------------------------- Cache Refresher -------------------------- *)
\* refresh_cache, first half: one fetch future per configured stream, pushed
\* in iteration order.
refresh_cache == [i \in 1..Len(streams) |-> FetchPending(streams[i])]

\* join_all as a bug would have it: a failed element counts as ready, so the
\* whole is never an error.
join_all_lenient(elems) ==
  IF \A i \in 1..Len(elems) : elems[i].st # "pending" THEN "ok"
  ELSE "notready"

\* join_all as a bug would have it: ready with whatever has arrived as soon as
\* one element is ready.
join_all_any(elems) ==
  IF \E i \in 1..Len(elems) : elems[i].st = "err" THEN "err"
  ELSE IF \E i \in 1..Len(elems) : elems[i].st = "ok" THEN "ok"
  ELSE "notready"

\* futures::future::join_all: an error of any element is the error of the
\* whole, at once; the vector of items once every element is ready.
join_all(elems) ==
  IF \E i \in 1..Len(elems) : elems[i].st = "err" THEN "err"
  ELSE IF \A i \in 1..Len(elems) : elems[i].st = "ok" THEN "ok"
  ELSE "notready"

\* HashMap::insert
insert(map, k, v) ==
  [x \in DOMAIN map \cup {k} |-> IF x = k THEN v ELSE map[x]]

\* refresh_cache, second half: the map closure over the joined vector, from
\* element i on.
RECURSIVE streams_latest(_, _, _)
streams_latest(map, vec, i) ==
  IF i > Len(vec) THEN map
  ELSE streams_latest(IF vec[i].item # <<>>
                        THEN insert(map, vec[i].stream, vec[i].item[1])
                        ELSE map,
                      vec, i + 1)

\* waiting as a bug would have it (the cycle spawned, not waited on).
waiting_never == FALSE

\* The context is waiting on a future (ContextParts::waiting): neither the
\* mailbox nor the queued items are polled while it is.
waiting == Len(wait) > 0

\* ctx.wait(fut)
ctx_wait(fut) == Append(wait, fut)

\* The wait list without the future that has just resolved (the newest).
wait_resolved == SubSeq(wait, 1, Len(wait) - 1)

\* Scraper::tick_later: ctx.notify_later(RefreshTick {}, after)
tick_later(after) == Append(later, now + after)

\* inc as a bug would have it: the scrape is not counted.
inc_skipped(counter) == counter

\* IntCounter::inc
inc(counter) == counter + 1

\* replace_cache as a bug would have it: the new map is merged into the old.
extend_cache(old, cache) ==
  [x \in DOMAIN old \cup DOMAIN cache |->
     IF x \in DOMAIN cache THEN cache[x] ELSE old[x]]

\* actor.latest = cache
replace_cache(old, cache) == cache

\* The streams of a joined vector that came with a release, each with it.
Built(elems) ==
  [s \in {streams[i] : i \in {j \in 1..Len(elems) : elems[j].item # <<>>}} |->
     elems[CHOOSE i \in 1..Len(elems) : streams[i] = s].item[1]]

\* What the history keeps of a cycle at the moment it resolves.
Resolved(result) ==
  <<[result |-> result, elems |-> wait[Len(wait)], before |-> latest,
     gauge |-> LAST_REFRESH, at |-> now]>>

Init ==
  /\ started = FALSE
  /\ latest = HashMapNew
  /\ wait = <<>>
  /\ notified = 0
  /\ later = <<>>
  /\ mailbox = <<>>
  /\ reply = <<>>
  /\ UPSTREAM_SCRAPES = 0
  /\ LAST_REFRESH = 0
  /\ now = refresh_pause
  /\ handled = 0
  /\ done = <<>>
  /\ snapshot = HashMapNew
  /\ callers = <<>>
  /\ response = <<>>
  /\ first = <<>>

\* Actor::started: Self::tick_now(ctx), that is ctx.notify(RefreshTick {}).
Started ==
  /\ ~started
  /\ started' = TRUE
  /\ notified' = notified + 1
  /\ UNCHANGED <<latest, wait, later, mailbox, reply, UPSTREAM_SCRAPES,
                 LAST_REFRESH, now, handled, done, snapshot, callers,
                 response, first>>

\* RefreshTickHandle as a bug would have it: the next tick is scheduled by the
\* handler itself, before the cycle has resolved.
RefreshTickHandleEager(items) ==
  /\ UPSTREAM_SCRAPES' = inc(UPSTREAM_SCRAPES)
  /\ wait' = ctx_wait(refresh_cache)
  /\ later' = Append(items, now + refresh_pause)
  /\ handled' = handled + 1
  /\ done' = <<>>
  /\ UNCHANGED <<started, latest, mailbox, reply, LAST_REFRESH, now, snapshot,
                 callers, response, first>>

\* Handler<RefreshTick>::handle, up to its return: count the scrape, build the
\* cycle's future and make the context wait on it. items is the list of
\* delayed ticks once the tick being handled is taken off it.
RefreshTickHandle(items) ==
  /\ UPSTREAM_SCRAPES' = inc(UPSTREAM_SCRAPES)
  /\ wait' = ctx_wait(refresh_cache)
  /\ later' = items
  /\ handled' = handled + 1
  /\ done' = <<>>
  /\ UNCHANGED <<started, latest, mailbox, reply, LAST_REFRESH, now, snapshot,
                 callers, response, first>>

\* The RefreshTick queued by ctx.notify is taken up.
TickNow ==
  /\ started
  /\ ~waiting
  /\ notified > 0
  /\ UPSTREAM_SCRAPES < MaxTicks
  /\ notified' = notified - 1
  /\ RefreshTickHandle(later)

\* A RefreshTick queued by ctx.notify_later is taken up once its delay is over.
TickLater ==
  /\ started
  /\ ~waiting
  /\ UPSTREAM_SCRAPES < MaxTicks
  /\ notified' = notified
  /\ \E i \in 1..Len(later) :
       /\ later[i] <= now
       /\ RefreshTickHandle(SubSeq(later, 1, i - 1)
                              \o SubSeq(later, i + 1, Len(later)))

\* FetchDone as a bug would have it: a fetch that brings a release puts it
\* into the cache as soon as it resolves.
FetchDoneInserting ==
  \E c \in 1..Len(wait) : \E i \in 1..Len(wait[c]) :
    /\ wait[c][i].st = "pending"
    /\ \E out \in {FetchErr(streams[i])}
                    \cup {FetchOk(streams[i], json) : json \in ReleasesJSON} :
         /\ wait' = [wait EXCEPT ![c][i] = out]
         /\ latest' = IF out.item = <<>> THEN latest
                      ELSE insert(latest, out.stream, out.item[1])
    /\ UNCHANGED <<started, notified, later, mailbox, reply,
                   UPSTREAM_SCRAPES, LAST_REFRESH, now, handled, done,
                   snapshot, callers, response, first>>

\* One fetch of a cycle in flight resolves: with an error (network failure,
\* non-2xx status, malformed JSON), or with the body the upstream served.
FetchDone ==
  \E c \in 1..Len(wait) : \E i \in 1..Len(wait[c]) :
    /\ wait[c][i].st = "pending"
    /\ \E out \in {FetchErr(streams[i])}
                    \cup {FetchOk(streams[i], json) : json \in ReleasesJSON} :
         wait' = [wait EXCEPT ![c][i] = out]
    /\ UNCHANGED <<started, latest, notified, later, mailbox, reply,
                   UPSTREAM_SCRAPES, LAST_REFRESH, now, handled, done,
                   snapshot, callers, response, first>>

\* The cycle's future resolves to Ok(cache): the map closure replaces the
\* cache and sets the gauge, the then closure schedules the next tick.
RefreshOk ==
  /\ Len(wait) > 0
  /\ join_all(wait[Len(wait)]) = "ok"
  /\ latest' = replace_cache(latest, streams_latest(HashMapNew, wait[Len(wait)], 1))
  /\ LAST_REFRESH' = now
  /\ later' = tick_later(refresh_pause)
  /\ wait' = wait_resolved
  /\ done' = Resolved("ok")
  /\ snapshot' = Built(wait[Len(wait)])
  /\ first' = <<>>
  /\ UNCHANGED <<started, notified, mailbox, reply, UPSTREAM_SCRAPES, now,
                 handled, callers, response>>

\* RefreshErr as a bug would have it: the failed cycle schedules no tick
\* (and_then in the place of then).
RefreshErrNoTick ==
  /\ Len(wait) > 0
  /\ join_all(wait[Len(wait)]) = "err"
  /\ wait' = wait_resolved
  /\ done' = Resolved("err")
  /\ UNCHANGED <<started, latest, notified, later, mailbox, reply,
                 UPSTREAM_SCRAPES, LAST_REFRESH, now, handled, snapshot,
                 callers, response, first>>

\* RefreshErr as a bug would have it: the failed cycle stamps the gauge too.
RefreshErrStamped ==
  /\ Len(wait) > 0
  /\ join_all(wait[Len(wait)]) = "err"
  /\ LAST_REFRESH' = now
  /\ later' = tick_later(refresh_pause)
  /\ wait' = wait_resolved
  /\ done' = Resolved("err")
  /\ UNCHANGED <<started, latest, notified, mailbox, reply, UPSTREAM_SCRAPES,
                 now, handled, snapshot, callers, response, first>>

\* RefreshErr as a bug would have it: the failed cycle empties the cache.
RefreshErrClearing ==
  /\ Len(wait) > 0
  /\ join_all(wait[Len(wait)]) = "err"
  /\ latest' = HashMapNew
  /\ later' = tick_later(refresh_pause)
  /\ wait' = wait_resolved
  /\ done' = Resolved("err")
  /\ UNCHANGED <<started, notified, mailbox, reply, UPSTREAM_SCRAPES,
                 LAST_REFRESH, now, handled, snapshot, callers, response,
                 first>>

\* The cycle's future resolves to Err: map_err logs it, the map closure is
\* skipped, the then closure schedules the next tick.
RefreshErr ==
  /\ Len(wait) > 0
  /\ join_all(wait[Len(wait)]) = "err"
  /\ later' = tick_later(refresh_pause)
  /\ wait' = wait_resolved
  /\ done' = Resolved("err")
  /\ UNCHANGED <<started, latest, notified, mailbox, reply, UPSTREAM_SCRAPES,
                 LAST_REFRESH, now, handled, snapshot, callers, response,
                 first>>

\* Time passes by one pause: while a fetch is under way (up to MaxTime), and
\* up to the deadline of a delayed tick that can still be handled.
Advance ==
  /\ \/ Len(wait) > 0 /\ now < MaxTime
     \/ UPSTREAM_SCRAPES < MaxTicks /\ \E i \in 1..Len(later) : later[i] > now
  /\ now' = now + refresh_pause
  /\ UNCHANGED <<started, latest, wait, notified, later, mailbox, reply,
                 UPSTREAM_SCRAPES, LAST_REFRESH, handled, done, snapshot,
                 callers, response, first>>

(* ---------------------------- Query Service --------------------------- *)
\* scraper::GetLatest::new
GetLatest(basearch, stream) == [basearch |-> basearch, stream |-> stream]

\* The loop over release.commits from commit i on: the checksum of a commit
\* of the wanted architecture replaces the one held in matching.
RECURSIVE scan_commits(_, _, _, _)
scan_commits(commits, basearch, matching, i) ==
  IF i > Len(commits) THEN matching
  ELSE scan_commits(commits, basearch,
                    IF commits[i].architecture = basearch
                      THEN commits[i].checksum
                      ELSE matching,
                    i + 1)

\* The two results of a handler: Err(format_err!(..)) and Ok(CincinnatiPayload).
Failure(text) ==
  [ok |-> FALSE, error |-> text, version |-> "", payload |-> "",
   scheme |-> "", age_index |-> ""]
Payload(version, checksum, age_index) ==
  [ok |-> TRUE, error |-> "", version |-> version, payload |-> checksum,
   scheme |-> "checksum", age_index |-> age_index]

\* get_latest as a bug would have it: a stream without an entry is read as a
\* release without commits (unwrap_or_default in the place of the match).
get_latest_default(cache, msg) ==
  LET commits == IF msg.stream \in DOMAIN cache
                   THEN cache[msg.stream].commits ELSE <<>>
      matching == scan_commits(commits, msg.basearch, "", 1)
  IN  IF matching = "" THEN Failure("basearch unavailable")
      ELSE Payload(cache[msg.stream].version, matching, "1")

\* Handler<GetLatest>::handle on the cache as it stands.
get_latest(cache, msg) ==
  IF msg.stream \notin DOMAIN cache THEN Failure("stream unavailable")
  ELSE LET release == cache[msg.stream]
           matching == scan_commits(release.commits, msg.basearch, "", 1)
       IN  IF matching = "" THEN Failure("basearch unavailable")
           ELSE Payload(release.version, matching, "1")

\* A GetLatest message is sent to the actor's address by a sender that is
\* not a serve_graph task (the message type is open to any basearch).
SendGetLatest ==
  /\ started
  /\ Len(mailbox) < MaxMailbox
  /\ \E s \in QueryStreams : \E a \in Basearchs :
       mailbox' = Append(mailbox, GetLatest(a, s))
  /\ callers' = Append(callers, <<>>)
  /\ UNCHANGED <<started, latest, wait, notified, later, reply,
                 UPSTREAM_SCRAPES, LAST_REFRESH, now, handled, done, snapshot,
                 response, first>>

(* ----------------------------- HTTP Adapter --------------------------- *)
\* Values of the query parameters of GET /v1/graph; "" stands for a missing
\* parameter and for an empty one alike (unwrap_or_default).
CurrentOs == {"", "deadbeef"}
OsChecksums == {"", "cafe"}
HttpStreams == {"", "testing", "missing"}

\* client_os as a bug would have it: os_checksum is read first.
client_os_checksum_first(current_os, os_checksum) ==
  IF os_checksum = "" THEN current_os ELSE os_checksum

\* let mut os = current_os; if os.is_empty() { os = os_checksum; .. }
client_os(current_os, os_checksum) ==
  IF current_os = "" THEN os_checksum ELSE current_os

\* bad_request as a bug would have it: the stream is not looked at.
bad_request_os_only(os, stream) == os = ""

\* The two early returns of serve_graph.
bad_request(os, stream) == os = "" \/ stream = ""

\* HttpResponse::BadRequest().finish()
BadRequest == [status |-> 400, content_type |-> "", body |-> <<>>]

\* HttpResponse::Ok().content_type("application/json").body(json); the body
\* is the Graph that serde writes out field by field.
Ok(graph) ==
  [status |-> 200, content_type |-> "application/json", body |-> <<graph>>]

\* The response actix-web makes of the Error serve_graph's future fails with.
InternalServerError == [status |-> 500, content_type |-> "", body |-> <<>>]

\* main::Graph
Graph(nodes, edges) == [nodes |-> nodes, edges |-> edges]

\* The source node serve_graph synthesizes.
current(os) == Payload("client-os-version", os, "0")

\* The and_then/map chain of serve_graph on the result of GetLatest; node is
\* the source node the task holds.
respond(node, result) ==
  IF result.ok THEN Ok(Graph(<<node, result>>, <<<<0, 1>>>>))
  ELSE InternalServerError

\* serve_graph up to its return: it answers 400 at once, or sends GetLatest
\* for "x86_64" and holds the source node until the answer comes.
ServeGraph(current_os, os_checksum, stream) ==
  LET os == client_os(current_os, os_checksum)
  IN  IF bad_request(os, stream)
        THEN /\ response' = <<BadRequest>>
             /\ UNCHANGED <<mailbox, callers, started, latest, wait,
                            notified, later, reply, UPSTREAM_SCRAPES,
                            LAST_REFRESH, now, handled, done, snapshot,
                            first>>
        ELSE /\ started
             /\ Len(mailbox) < MaxMailbox
             /\ mailbox' = Append(mailbox, GetLatest("x86_64", stream))
             /\ callers' = Append(callers, <<current(os)>>)
             /\ UNCHANGED <<started, latest, wait, notified, later, reply,
                            UPSTREAM_SCRAPES, LAST_REFRESH, now, handled,
                            done, snapshot, response, first>>

\* A GET /v1/graph request arrives.
ServeGraphAny ==
  \E current_os \in CurrentOs : \E os_checksum \in OsChecksums :
    \E stream \in HttpStreams : ServeGraph(current_os, os_checksum, stream)

\* GetLatestHandled as a bug would have it: the handler takes the entry out
\* of the cache (remove in the place of get).
GetLatestHandledTaking(noted) ==
  /\ started
  /\ ~waiting
  /\ mailbox # <<>>
  /\ LET msg == Head(mailbox)
         res == get_latest(latest, msg)
     IN  /\ reply' = <<[msg |-> msg,
                        seen |-> IF msg.stream \in DOMAIN latest
                                   THEN <<latest[msg.stream]>> ELSE <<>>,
                        res |-> res]>>
         /\ response' = IF Head(callers) = <<>> THEN response
                        ELSE <<respond(Head(callers)[1], res)>>
         /\ latest' = [s \in DOMAIN latest \ {msg.stream} |-> latest[s]]
  /\ first' = IF noted /\ first = <<>> THEN reply' ELSE first
  /\ mailbox' = Tail(mailbox)
  /\ callers' = Tail(callers)
  /\ UNCHANGED <<started, wait, notified, later, UPSTREAM_SCRAPES,
                 LAST_REFRESH, now, handled, done, snapshot>>

\* The mailbox hands the oldest GetLatest message to its handler, and the
\* serve_graph task that sent it, if one did, turns the answer into its HTTP
\* response; seen is the cache entry the handler read (history). With noted
\* the history keeps the first reply given since the cache was assigned.
GetLatestHandled(noted) ==
  /\ started
  /\ ~waiting
  /\ mailbox # <<>>
  /\ LET msg == Head(mailbox)
         res == get_latest(latest, msg)
     IN  /\ reply' = <<[msg |-> msg,
                        seen |-> IF msg.stream \in DOMAIN latest
                                   THEN <<latest[msg.stream]>> ELSE <<>>,
                        res |-> res]>>
         /\ response' = IF Head(callers) = <<>> THEN response
                        ELSE <<respond(Head(callers)[1], res)>>
  /\ first' = IF noted /\ first = <<>> THEN reply' ELSE first
  /\ mailbox' = Tail(mailbox)
  /\ callers' = Tail(callers)
  /\ UNCHANGED <<started, latest, wait, notified, later, UPSTREAM_SCRAPES,
                 LAST_REFRESH, now, handled, done, snapshot>>

HandleGetLatest == GetLatestHandled(FALSE)

HandleGetLatestNoted == GetLatestHandled(TRUE)

Next ==
  \/ Started
  \/ TickNow
  \/ TickLater
  \/ FetchDone
  \/ RefreshOk
  \/ RefreshErr
  \/ Advance
  \/ SendGetLatest
  \/ HandleGetLatest

Spec == Init /\ [][Next]_vars

\* The refresher alone: the steps of the actor and of its surroundings that
\* the refresh loop is made of. SendGetLatest and HandleGetLatest change none
\* of the variables these steps read.
RefresherNext ==
  \/ Started
  \/ TickNow
  \/ TickLater
  \/ FetchDone
  \/ RefreshOk
  \/ RefreshErr
  \/ Advance

\* The actor's context is polled whenever it has work, the clock runs, and
\* every fetch comes to an end (the hypothesis of C6).
\* The service as the program runs it: the refresher, and GetLatest sent by
\* serve_graph only.
HttpNext ==
  \/ Started
  \/ TickNow
  \/ TickLater
  \/ FetchDone
  \/ RefreshOk
  \/ RefreshErr
  \/ Advance
  \/ ServeGraphAny
  \/ HandleGetLatest

HttpSpec == Init /\ [][HttpNext]_vars

\* The same service, with the history of first replies kept.
NotedNext ==
  \/ Started
  \/ TickNow
  \/ TickLater
  \/ FetchDone
  \/ RefreshOk
  \/ RefreshErr
  \/ Advance
  \/ ServeGraphAny
  \/ HandleGetLatestNoted

NotedSpec == Init /\ [][NotedNext]_vars

LiveSpec ==
  /\ Init /\ [][RefresherNext]_vars
  /\ WF_vars(Started) /\ WF_vars(TickNow) /\ WF_vars(TickLater)
  /\ WF_vars(FetchDone) /\ WF_vars(RefreshOk) /\ WF_vars(RefreshErr)
  /\ WF_vars(Advance)

TypeOK ==
  /\ started \in BOOLEAN
  /\ DOMAIN latest \subseteq QueryStreams
  /\ notified \in Nat
  /\ UPSTREAM_SCRAPES \in 0..MaxTicks
  /\ now \in 0..(MaxTime + refresh_pause * MaxTicks)
  /\ Len(callers) = Len(mailbox)
  /\ Len(mailbox) <= MaxMailbox
  /\ Len(response) <= 1
  /\ Len(first) <= 1

(* ------------------------- properties: C1 ----------------------------- *)
\* A stream's fetch failed / succeeded with a release, in a resolved cycle.
Failed(elems, i) == elems[i].st = "err"
Succeeded(elems, i) == elems[i].st = "ok" /\ elems[i].item # <<>>

\* The cycle that resolved last had at least one failing fetch while every
\* other fetch succeeded with a release.
OneFailsOthersSucceed ==
  /\ done # <<>>
  /\ \E i \in 1..Len(streams) : Failed(done[1].elems, i)
  /\ \A i \in 1..Len(streams) :
       Failed(done[1].elems, i) \/ Succeeded(done[1].elems, i)

\* C1 as stated: after a cycle in which one stream's fetch fails while the
\* others succeed with a release, the cache holds exactly the succeeding
\* streams, each with its newly fetched release, and nothing for the failing
\* stream.
C1_ResilienceAsStated ==
  OneFailsOthersSucceed =>
    /\ DOMAIN latest =
         {streams[i] : i \in {j \in 1..Len(streams) : Succeeded(done[1].elems, j)}}
    /\ \A i \in 1..Len(streams) :
         Succeeded(done[1].elems, i) => latest[streams[i]] = done[1].elems[i].item[1]

\* C1 as amended: after a cycle in which one stream's fetch fails while the
\* others succeed with a release, the cache is exactly the cache as it was
\* before the cycle: the failing stream keeps the entry it had, and the
\* succeeding streams keep what they had instead of the fetched releases.
C1_FailedFetchKeepsCache ==
  OneFailsOthersSucceed => latest = done[1].before

\* C1 witness: such a cycle has resolved, the failing stream had an entry
\* before it, and a succeeding stream fetched a release other than its old one.
C1_Witness ==
  /\ OneFailsOthersSucceed
  /\ \E i \in 1..Len(streams) :
       Failed(done[1].elems, i) /\ streams[i] \in DOMAIN done[1].before
  /\ \E i \in 1..Len(streams) :
       /\ Succeeded(done[1].elems, i)
       /\ streams[i] \in DOMAIN done[1].before
       /\ done[1].before[streams[i]] # done[1].elems[i].item[1]

(* ------------------------- properties: C2 ----------------------------- *)
\* The commits of a release that are of architecture a, by position.
MatchingCommits(release, a) ==
  {i \in 1..Len(release.commits) : release.commits[i].architecture = a}

LastMatching(release, a) ==
  CHOOSE i \in MatchingCommits(release, a) :
    \A j \in MatchingCommits(release, a) : j <= i

\* C2 as stated: a GetLatest(S, A) that finds S in the cache (S was fetched
\* successfully by the cycle that built the cache) succeeds if and only if
\* some commit of S's release is of architecture A, and then its payload is
\* the checksum of the last such commit, whatever the checksums are.
C2_LastMatchingCommitWins ==
  (reply # <<>> /\ reply[1].seen # <<>>) =>
    LET release == reply[1].seen[1]
        a == reply[1].msg.basearch
    IN  /\ reply[1].res.ok <=> MatchingCommits(release, a) # {}
        /\ reply[1].res.ok =>
             reply[1].res.payload = release.commits[LastMatching(release, a)].checksum

(* ------------------------- properties: C3 ----------------------------- *)
\* C3 as stated: while a refresh cycle is in flight, a GetLatest message that
\* has arrived can be handled (it is answered against the cache as it is).
C3_QueriesAnsweredDuringCycle ==
  (Len(wait) > 0 /\ mailbox # <<>>) => ENABLED HandleGetLatest

\* C3 as amended: while a refresh cycle is in flight no GetLatest message is
\* handled; whatever arrives stays in the mailbox until the cycle resolves.
C3_QueriesWaitForCycle ==
  Len(wait) > 0 => ~ENABLED HandleGetLatest

\* C3 witness: a cycle is in flight with a fetch outstanding, a cache from an
\* earlier cycle is there to answer from, and a GetLatest message has arrived.
C3_Witness ==
  /\ Len(wait) > 0
  /\ \E i \in 1..Len(streams) : wait[Len(wait)][i].st = "pending"
  /\ latest # HashMapNew
  /\ mailbox # <<>>

(* ------------------------- properties: C4 ----------------------------- *)
\* C4: the cache a handler can read is the empty initial map until a cycle
\* commits, and from then on exactly the map built by the one cycle that
\* committed last: never a mix of two cycles' entries.
C4_AtomicReplacement ==
  latest = snapshot

\* C4 witness: a second cycle has committed a map that lacks a stream the
\* map before it held, and holds another release for a stream both hold.
C4_Witness ==
  /\ done # <<>>
  /\ done[1].result = "ok"
  /\ \E s \in DOMAIN done[1].before : s \notin DOMAIN latest
  /\ \E s \in DOMAIN done[1].before \cap DOMAIN latest :
       latest[s] # done[1].before[s]

(* ------------------------- properties: C5 ----------------------------- *)
\* C5: at most one refresh cycle is in flight, and while one is in flight no
\* RefreshTick is queued or scheduled: the next one is scheduled only once
\* the cycle has resolved.
C5_CyclesNeverOverlap ==
  /\ Len(wait) <= 1
  /\ Len(wait) = 1 => (notified = 0 /\ later = <<>>)

\* C5 witness: a second cycle is in flight, started by a delayed tick.
C5_Witness ==
  /\ handled >= 2
  /\ Len(wait) = 1
  /\ \E i \in 1..Len(streams) : wait[1][i].st = "pending"

(* ------------------------- properties: C6 ----------------------------- *)
\* C6: every RefreshTick handled is followed by the next one being handled,
\* however the fetches of its cycle resolve (as far as the bound on ticks
\* reaches).
C6_AlwaysReschedules ==
  \A n \in 1..(MaxTicks - 1) : (handled = n) ~> (handled = n + 1)

\* C6 witness: a second tick has been handled although no cycle has ever
\* committed, that is, after a cycle that failed.
C6_Witness ==
  /\ handled >= 2
  /\ LAST_REFRESH = 0
  /\ latest = HashMapNew

(* ------------------------- properties: C7 ----------------------------- *)
\* C7 as stated: once a cycle has resolved, whatever its outcome, the gauge
\* holds the time at which it resolved.
C7_GaugeStampedByEveryCycle ==
  done # <<>> => LAST_REFRESH = done[1].at

\* C7 as amended: a cycle in which every fetch succeeded leaves its own time
\* in the gauge; a cycle in which a fetch failed leaves the gauge as it was.
C7_GaugeStampedBySuccessOnly ==
  done # <<>> =>
    LAST_REFRESH = IF \E i \in 1..Len(streams) : Failed(done[1].elems, i)
                     THEN done[1].gauge
                     ELSE done[1].at

\* C7 witness: a cycle has failed after an earlier one had succeeded, and the
\* gauge holds the earlier time.
C7_Witness ==
  /\ done # <<>>
  /\ \E i \in 1..Len(streams) : Failed(done[1].elems, i)
  /\ 0 < LAST_REFRESH
  /\ LAST_REFRESH < done[1].at

(* ------------------------- properties: C8 ----------------------------- *)
\* C8: the counter equals the number of RefreshTick messages handled so far,
\* whatever became of their cycles (the number handled never decreases).
C8_CounterCountsTicks ==
  UPSTREAM_SCRAPES = handled

\* C8 witness: a first cycle failed, and a second one is in flight with one
\* fetch failed and another outstanding.
C8_Witness ==
  /\ handled >= 2
  /\ LAST_REFRESH = 0
  /\ Len(wait) = 1
  /\ \E i \in 1..Len(streams) : wait[1][i].st = "err"
  /\ \E i \in 1..Len(streams) : wait[1][i].st = "pending"

(* ------------------------- properties: C9 ----------------------------- *)
\* C9 as stated: a cycle resolves only once every stream's fetch has produced
\* its outcome.
C9_ResolvesAfterAllOutcomes ==
  done # <<>> => \A i \in 1..Len(streams) : done[1].elems[i].st # "pending"

\* C9 as amended: a cycle resolves either once every stream's fetch has
\* succeeded, and only then does it commit, or as soon as one fetch has
\* failed, other fetches outstanding or not; either way it schedules a tick.
C9_ResolvesOnAllOkOrFirstErr ==
  done # <<>> =>
    /\ \/ \A i \in 1..Len(streams) : done[1].elems[i].st = "ok"
       \/ \E i \in 1..Len(streams) : Failed(done[1].elems, i)
    /\ done[1].result = "ok" =>
         \A i \in 1..Len(streams) : done[1].elems[i].st = "ok"
    /\ later # <<>>

\* C9 witness: a cycle has resolved on a failed fetch while another stream's
\* fetch was still outstanding.
C9_Witness ==
  /\ done # <<>>
  /\ \E i \in 1..Len(streams) : Failed(done[1].elems, i)
  /\ \E i \in 1..Len(streams) : done[1].elems[i].st = "pending"

(* ------------------------- properties: C10 ---------------------------- *)
\* C10: every key of the cache is a configured stream.
C10_OnlyConfiguredStreams ==
  DOMAIN latest \subseteq StreamSet

\* C10 witness: the cache holds every configured stream, and a query naming
\* an unconfigured stream has been answered from it.
C10_Witness ==
  /\ DOMAIN latest = StreamSet
  /\ reply # <<>>
  /\ reply[1].msg.stream \notin StreamSet
  /\ LAST_REFRESH > 0
  /\ mailbox = <<>>


(* ------------------------------ Claim C11 ----------------------------- *)
\* C11: a GetLatest whose stream has no entry in the cache it is handled on
\* fails with "stream unavailable", whatever its basearch and never with
\* "basearch unavailable"; the cache is empty until a cycle commits (the
\* gauge is still 0), so every reply given until then is that failure.
C11_AbsentStreamUnavailable ==
  /\ LAST_REFRESH = 0 => latest = HashMapNew
  /\ reply # <<>> =>
       /\ reply[1].seen = <<>> => reply[1].res = Failure("stream unavailable")
       /\ LAST_REFRESH = 0 => reply[1].res = Failure("stream unavailable")

\* A configured stream was asked for after a first cycle that failed, so
\* before any cycle committed, and for the architecture nobody else serves.
C11_Witness ==
  /\ reply # <<>>
  /\ reply[1].msg.stream \in StreamSet
  /\ reply[1].msg.basearch = "ppc64le"
  /\ reply[1].seen = <<>>
  /\ LAST_REFRESH = 0
  /\ done # <<>>
  /\ done[1].result = "err"

(* ------------------------------ Claim C16 ----------------------------- *)
\* C16: a cycle in which at least one fetch failed, whatever became of the
\* other fetches, leaves the cache equal to the cache before the cycle: no
\* entry is added, replaced or removed, not even for a stream whose fetch
\* had succeeded.
C16_FailedCycleLeavesCache ==
  (done # <<>> /\ \E i \in 1..Len(done[1].elems) : Failed(done[1].elems, i))
    => /\ done[1].result = "err"
       /\ latest = done[1].before
       /\ \A s \in StreamSet :
            s \in DOMAIN latest <=> s \in DOMAIN done[1].before

\* A second cycle failed while the cache held both streams, with one fetch
\* that had succeeded with a release other than the cached one.
C16_Witness ==
  /\ done # <<>>
  /\ DOMAIN done[1].before = StreamSet
  /\ \E i, j \in 1..Len(done[1].elems) :
       /\ Failed(done[1].elems, i)
       /\ Succeeded(done[1].elems, j)
       /\ done[1].elems[j].item # <<>>
       /\ done[1].elems[j].item[1] # done[1].before[streams[j]]

(* ------------------------------ Claim C17 ----------------------------- *)
\* A stream the cycle resolved last fetched with success but with an empty
\* releases list, in a cycle whose fetches all succeeded.
EmptiedStreams ==
  IF done # <<>>
       /\ \A i \in 1..Len(done[1].elems) : done[1].elems[i].st = "ok"
    THEN {streams[i] : i \in {j \in 1..Len(done[1].elems) :
                                done[1].elems[j].item = <<>>}}
    ELSE {}

\* C17: after a cycle whose fetches all succeeded, a stream whose upstream
\* releases list was empty has no entry in the cache, even if it had one
\* before; a GetLatest on that stream handled then fails with "stream
\* unavailable".
C17_EmptyListDropsStream ==
  /\ [](\A s \in EmptiedStreams : s \notin DOMAIN latest)
  /\ [][(reply' # reply /\ reply' # <<>>
           /\ reply'[1].msg.stream \in EmptiedStreams)
          => reply'[1].res = Failure("stream unavailable")]_vars

\* A stream that had a release in the cache lost it to an empty list, and a
\* query for it was answered without an entry.
C17_Witness ==
  /\ \E s \in EmptiedStreams : s \in DOMAIN done[1].before
  /\ reply # <<>>
  /\ reply[1].msg.stream \in EmptiedStreams
  /\ reply[1].seen = <<>>
  /\ LAST_REFRESH > 0
  /\ handled = MaxTicks

(* ------------------------------ Claim C18 ----------------------------- *)
\* The refresh activities in existence: RefreshTick items queued for
\* immediate handling, cycles in flight, delayed ticks on the timer.
RefreshActivities == notified + Len(wait) + Len(later)

\* C18: from the start of the actor on there is exactly one refresh
\* activity at any time (and none before the start).
C18_ExactlyOneRefreshActivity ==
  RefreshActivities = IF started THEN 1 ELSE 0

\* A delayed tick is the one activity after a cycle that failed, and so is
\* the second cycle in flight.
C18_Witness ==
  /\ handled = MaxTicks
  /\ done # <<>>
  /\ done[1].result = "err"
  /\ later # <<>>
  /\ RefreshActivities = 1


(* ------------------------------ Claim C12 ----------------------------- *)
\* C12: the cache changes only in a step that resolves a cycle; handling a
\* GetLatest (answered or failed), starting a cycle on a RefreshTick, the
\* completion of one fetch and the rejection of an HTTP request leave it as
\* it is, and handling a GetLatest leaves the refresh schedule (queued ticks,
\* cycle in flight, delayed ticks) as it is too.
C12_OnlyCycleEndChangesCache ==
  [][/\ latest' # latest => Len(wait') < Len(wait)
     /\ Len(mailbox') < Len(mailbox)
          => UNCHANGED <<latest, wait, notified, later>>
     /\ (handled' # handled
           \/ (Len(wait') = Len(wait) /\ wait' # wait)
           \/ (response' # response /\ response'[1].status = 400))
          => latest' = latest]_vars

\* A request was rejected and a query was answered from a cache that holds
\* both streams, while one fetch of the next cycle has come back with a
\* release other than the cached one.
C12_Witness ==
  /\ response # <<>>
  /\ response[1].status = 400
  /\ reply # <<>>
  /\ reply[1].res.ok
  /\ DOMAIN latest = StreamSet
  /\ Len(wait) = 1
  /\ \E i \in 1..Len(streams) :
       /\ wait[1][i].st = "ok"
       /\ wait[1][i].item # <<>>
       /\ wait[1][i].item[1] # latest[streams[i]]

(* ------------------------------ Claim C13 ----------------------------- *)
\* C13: a GetLatest handled after the same GetLatest (same stream, same
\* basearch) was handled, with no assignment of the cache in between, gets
\* the same outcome: the same payload or the same failure, whatever other
\* queries were handled in between.
C13_RepeatedQuerySameOutcome ==
  [][(Len(mailbox') < Len(mailbox) /\ first # <<>>
        /\ Head(mailbox) = first[1].msg)
       => /\ reply'[1].msg = first[1].msg
          /\ reply'[1].res = first[1].res]_vars

\* A query was answered with a payload, another query was answered after it,
\* and the first query waits in the mailbox to be handled again; a cycle has
\* failed meanwhile, which assigns nothing.
C13_Witness ==
  /\ first # <<>>
  /\ first[1].res.ok
  /\ reply[1].msg # first[1].msg
  /\ mailbox # <<>>
  /\ Head(mailbox) = first[1].msg
  /\ Len(wait) = 0
  /\ done # <<>>
  /\ done[1].result = "err"

(* ------------------------------ Claim C14 ----------------------------- *)
\* C14: a GET /v1/graph request without a non-empty current_os and without
\* a non-empty os_checksum, or without a non-empty stream, is answered with
\* status 400 and an empty body, and no GetLatest message is sent for it.
C14_BadRequestRejected ==
  [][(\E current_os \in CurrentOs : \E os_checksum \in OsChecksums :
        \E stream \in HttpStreams :
          /\ (current_os = "" /\ os_checksum = "") \/ stream = ""
          /\ ServeGraph(current_os, os_checksum, stream))
       => /\ response' # <<>>
          /\ response'[1].status = 400
          /\ response'[1].body = <<>>
          /\ mailbox' = mailbox
          /\ callers' = callers]_vars

\* A request was rejected while the actor was up, its cache filled, and
\* nothing is in its mailbox.
C14_Witness ==
  /\ response # <<>>
  /\ response[1].status = 400
  /\ response[1].body = <<>>
  /\ started
  /\ latest # HashMapNew
  /\ mailbox = <<>>

(* ------------------------------ Claim C15 ----------------------------- *)
\* C15: a request with a client id (current_os when non-empty, os_checksum
\* otherwise) and a stream sends GetLatest for that stream; when GetLatest
\* answers with a payload the response is 200 with the graph of two nodes
\* [current, latest] and the one edge [0, 1], current being
\* {version "client-os-version", payload client id, age_index "0"} and latest
\* the payload GetLatest answered with; when GetLatest fails the response is
\* an error without a graph.
C15_GraphOfCurrentAndLatest ==
  [][/\ Len(mailbox') > Len(mailbox) =>
          \A current_os \in CurrentOs : \A os_checksum \in OsChecksums :
            \A stream \in HttpStreams :
              ServeGraph(current_os, os_checksum, stream)
                => /\ (current_os # "" \/ os_checksum # "") /\ stream # ""
                   /\ Len(mailbox') = Len(mailbox) + 1
                   /\ mailbox'[Len(mailbox')] =
                        [basearch |-> "x86_64", stream |-> stream]
                   /\ callers'[Len(callers')] =
                        <<[ok |-> TRUE, error |-> "",
                           version |-> "client-os-version",
                           payload |-> IF current_os # "" THEN current_os
                                       ELSE os_checksum,
                           scheme |-> "checksum", age_index |-> "0"]>>
     /\ (Len(mailbox') < Len(mailbox) /\ Head(callers) # <<>>)
          => /\ reply'[1].msg = Head(mailbox)
             /\ IF reply'[1].res.ok
                  THEN response' =
                         <<[status |-> 200,
                            content_type |-> "application/json",
                            body |-> <<[nodes |-> <<Head(callers)[1],
                                                    reply'[1].res>>,
                                        edges |-> <<<<0, 1>>>>]>>]>>
                  ELSE /\ response' # <<>>
                       /\ response'[1].status # 200
                       /\ response'[1].body = <<>>]_vars

\* A client known by its os_checksum only was answered the graph from its
\* node to the release cached for its stream.
C15_Witness ==
  /\ response # <<>>
  /\ response[1].status = 200
  /\ response[1].body[1].nodes[1].payload = "cafe"
  /\ response[1].body[1].nodes[2] = reply[1].res
  /\ reply[1].msg.stream \in DOMAIN latest
  /\ response[1].body[1].nodes[2].version = latest[reply[1].msg.stream].version

=============================================================================
